---------------------------- MODULE Spec2Model ----------------------------
(***************************************************************************)
(* ClickTrackWiz (src/ClickTrackMaster.py): a sequential builder that      *)
(* appends MIDI events to one track and keeps a running measure counter.   *)
(*                                                                         *)
(* The track is a sequence of event records.  mido's MetaMessage and       *)
(* Message are modelled as plain record constructors: the range checks the *)
(* library applies to a field are not code of this repository, and the     *)
(* inputs below keep every emitted field inside the ranges the MIDI format *)
(* can hold (a tempo fits 24 bits, a delta-time is a natural number).      *)
(*                                                                         *)
(* A call that raises leaves the object as it was at the raise; the        *)
(* exception is recorded in the call history.                              *)
(***************************************************************************)
EXTENDS Integers, Sequences, FiniteSets, TLC

VARIABLES
    track,              \* self.track: the events appended so far
    beats_per_measure,  \* self.beats_per_measure
    current_measure,    \* self.current_measure
    time_position,      \* self.time_position
    measure_offset,     \* self.measure_offset
    hist,               \* the calls made so far: [op, args, raised]
    pre,                \* the object's fields just before the last call
    pre2                \* the object's fields just before the call before it

vars == <<track, beats_per_measure, current_measure, time_position,
          measure_offset, hist, pre, pre2>>

-----------------------------------------------------------------------------
(* Bounds and input sets *)

\* Longest call sequence explored by Spec.
MaxCalls == 3

\* Measure counts passed to the operations range over 0..MaxMeasures.
MaxMeasures == 2

\* __init__'s default ticks_per_beat.
TicksPerBeat == 480

MeasureCounts == 0..MaxMeasures

\* bpm arguments of tempo(): a negative value whose quotient truncates to 0,
\* zero, a value whose quotient is not an integer, and a common tempo.
BpmValues == {-60000001, 0, 7, 120}

\* (start_tempo, end_tempo) of a ramp: one accelerando, one ritardando.
RampTempi == {<<60, 120>>, <<120, 60>>}

\* (beats_per_measure, note_value) of timesig().
TimeSignatures == {<<1, 4>>, <<3, 4>>, <<4, 4>>}

\* The time signatures of the end-to-end scenario.
ScenarioTimeSignatures == TimeSignatures \cup {<<2, 2>>, <<6, 8>>}

\* measure argument of rehearsal_number(): <<>> is "not given" (None).
MarkerMeasures == {<<>>, <<0>>, <<5>>}

-----------------------------------------------------------------------------
(* Events: what MetaMessage(...) and Message(...) build *)

SetTempo(t) == [type |-> "set_tempo", tempo |-> t, time |-> 0]

TimeSignature(n, d) ==
    [type |-> "time_signature", numerator |-> n, denominator |-> d, time |-> 0]

Marker(text) == [type |-> "marker", text |-> text, time |-> 0]

NoteOn(note, velocity) ==
    [type |-> "note_on", note |-> note, velocity |-> velocity, time |-> 0]

NoteOff(note, velocity, time) ==
    [type |-> "note_off", note |-> note, velocity |-> velocity, time |-> time]

-----------------------------------------------------------------------------
(* Arithmetic *)

Abs(a) == IF a < 0 THEN -a ELSE a

\* int(a / b) for integers a and b # 0: Python's true division followed by
\* int(), which truncates toward zero (\div rounds toward minus infinity).
Trunc(a, b) ==
    IF (a < 0) = (b < 0) THEN Abs(a) \div Abs(b) ELSE -(Abs(a) \div Abs(b))

\* The tempo field of tempo(bpm), bpm # 0.
TempoValue_6M(bpm) == Trunc(6000000, bpm)

TempoValue(bpm) == Trunc(60000000, bpm)

-----------------------------------------------------------------------------
(* Call bookkeeping *)

Snapshot ==
    [track |-> track, beats_per_measure |-> beats_per_measure,
     current_measure |-> current_measure, time_position |-> time_position]

Record(op, args, raised) ==
    /\ hist' = Append(hist, [op |-> op, args |-> args, raised |-> raised])
    /\ pre' = Snapshot
    /\ pre2' = pre

Init ==
    /\ track = <<>>
    /\ measure_offset = 0
    /\ beats_per_measure = 0
    /\ current_measure = 1
    /\ time_position = 0
    /\ hist = <<>>
    /\ pre = [track |-> <<>>, beats_per_measure |-> 0,
              current_measure |-> 1, time_position |-> 0]
    /\ pre2 = [track |-> <<>>, beats_per_measure |-> 0,
               current_measure |-> 1, time_position |-> 0]


-----------------------------------------------------------------------------
(* initialize(): a new track holding the default tempo and time signature *)

initialize_keeps_track ==
    /\ track' = track \o <<SetTempo(500000), TimeSignature(4, 4)>>
    /\ time_position' = 0
    /\ UNCHANGED <<beats_per_measure, current_measure, measure_offset>>
    /\ Record("initialize", <<>>, "none")

initialize ==
    /\ track' = <<SetTempo(500000), TimeSignature(4, 4)>>
    /\ time_position' = 0
    /\ UNCHANGED <<beats_per_measure, current_measure, measure_offset>>
    /\ Record("initialize", <<>>, "none")

-----------------------------------------------------------------------------
(* tempo(bpm): 60000000 / bpm raises ZeroDivisionError for bpm = 0, before *)
(* the event is built                                                      *)

tempo(bpm) ==
    IF bpm = 0
    THEN /\ UNCHANGED <<track, beats_per_measure, current_measure,
                        time_position, measure_offset>>
         /\ Record("tempo", <<bpm>>, "ZeroDivisionError")
    ELSE /\ track' = Append(track, SetTempo(TempoValue(bpm)))
         /\ UNCHANGED <<beats_per_measure, current_measure, time_position,
                        measure_offset>>
         /\ Record("tempo", <<bpm>>, "none")

-----------------------------------------------------------------------------
(* timesig(beats_per_measure, note_value) *)

timesig(beats, note_value) ==
    /\ beats_per_measure' = beats
    /\ track' = Append(track, TimeSignature(beats, note_value))
    /\ UNCHANGED <<current_measure, time_position, measure_offset>>
    /\ Record("timesig", <<beats, note_value>>, "none")

-----------------------------------------------------------------------------
(* count_in(num_measures) *)

RECURSIVE count_in_events(_)
count_in_events(num_measures) ==
    IF num_measures <= 0 THEN <<>>
    ELSE <<NoteOn(60, 64), NoteOff(60, 64, TicksPerBeat * beats_per_measure)>>
         \o count_in_events(num_measures - 1)

count_in_advances(num_measures) ==
    /\ track' = track \o count_in_events(num_measures)
    /\ current_measure' = current_measure + num_measures
    /\ UNCHANGED <<beats_per_measure, time_position, measure_offset>>
    /\ Record("count_in", <<num_measures>>, "none")

count_in(num_measures) ==
    /\ track' = track \o count_in_events(num_measures)
    /\ UNCHANGED <<beats_per_measure, current_measure, time_position,
                   measure_offset>>
    /\ Record("count_in", <<num_measures>>, "none")

-----------------------------------------------------------------------------
(* insert_measures(num_measures) *)

RECURSIVE insert_measures_events(_)
insert_measures_events(num_measures) ==
    IF num_measures <= 0 THEN <<>>
    ELSE <<NoteOn(60, 64), NoteOff(60, 64, TicksPerBeat * beats_per_measure)>>
         \o insert_measures_events(num_measures - 1)

insert_measures_one_beat(num_measures) ==
    /\ track' = track \o [i \in 1..(2 * num_measures) |->
                             IF i % 2 = 1 THEN NoteOn(60, 64)
                             ELSE NoteOff(60, 64, TicksPerBeat)]
    /\ current_measure' = current_measure + num_measures
    /\ UNCHANGED <<beats_per_measure, time_position, measure_offset>>
    /\ Record("insert_measures", <<num_measures>>, "none")

insert_measures(num_measures) ==
    /\ track' = track \o insert_measures_events(num_measures)
    /\ current_measure' = current_measure + num_measures
    /\ UNCHANGED <<beats_per_measure, time_position, measure_offset>>
    /\ Record("insert_measures", <<num_measures>>, "none")

-----------------------------------------------------------------------------
(* skip_measures(num_measures) / unskip_measures(num_measures) *)

skip_measures(num_measures) ==
    /\ current_measure' = current_measure + num_measures
    /\ UNCHANGED <<track, beats_per_measure, time_position, measure_offset>>
    /\ Record("skip_measures", <<num_measures>>, "none")

unskip_measures_to_start(num_measures) ==
    /\ current_measure' = 1
    /\ UNCHANGED <<track, beats_per_measure, time_position, measure_offset>>
    /\ Record("unskip_measures", <<num_measures>>, "none")

unskip_measures_floored(num_measures) ==
    /\ current_measure' = IF current_measure - num_measures < 1 THEN 1
                          ELSE current_measure - num_measures
    /\ UNCHANGED <<track, beats_per_measure, time_position, measure_offset>>
    /\ Record("unskip_measures", <<num_measures>>, "none")

unskip_measures(num_measures) ==
    /\ current_measure' = current_measure - num_measures
    /\ UNCHANGED <<track, beats_per_measure, time_position, measure_offset>>
    /\ Record("unskip_measures", <<num_measures>>, "none")

-----------------------------------------------------------------------------
(* rehearsal_number(measure=None): `measure or self.current_measure` takes *)
(* current_measure when measure is None or 0                               *)

MeasureOrCurrent(measure) ==
    IF measure = <<>> \/ measure = <<0>> THEN current_measure ELSE measure[1]

rehearsal_number_prepends(measure) ==
    /\ track' = <<Marker("m." \o ToString(MeasureOrCurrent(measure)))>> \o track
    /\ UNCHANGED <<beats_per_measure, current_measure, time_position,
                   measure_offset>>
    /\ Record("rehearsal_number", measure, "none")

rehearsal_number(measure) ==
    /\ track' = Append(track, Marker("m." \o ToString(MeasureOrCurrent(measure))))
    /\ UNCHANGED <<beats_per_measure, current_measure, time_position,
                   measure_offset>>
    /\ Record("rehearsal_number", measure, "none")

-----------------------------------------------------------------------------
(* vamp(num_measures) *)

RECURSIVE vamp_events(_)
vamp_events(num_measures) ==
    IF num_measures <= 0 THEN <<>>
    ELSE <<NoteOn(60, 64), NoteOff(60, 64, TicksPerBeat * beats_per_measure)>>
         \o vamp_events(num_measures - 1)

vamp_marks_end(num_measures) ==
    /\ track' = Append(track, Marker("Vamp m." \o
                                     ToString(current_measure + num_measures)))
                \o vamp_events(num_measures)
    /\ current_measure' = current_measure + num_measures
    /\ UNCHANGED <<beats_per_measure, time_position, measure_offset>>
    /\ Record("vamp", <<num_measures>>, "none")

vamp(num_measures) ==
    /\ track' = Append(track, Marker("Vamp m." \o ToString(current_measure)))
                \o vamp_events(num_measures)
    /\ current_measure' = current_measure + num_measures
    /\ UNCHANGED <<beats_per_measure, time_position, measure_offset>>
    /\ Record("vamp", <<num_measures>>, "none")

-----------------------------------------------------------------------------
(* go() *)

go_stays ==
    /\ track' = track \o <<Marker("Go"), NoteOn(73, 127),
                           NoteOff(73, 127, TicksPerBeat * beats_per_measure)>>
    /\ UNCHANGED <<beats_per_measure, current_measure, time_position,
                   measure_offset>>
    /\ Record("go", <<>>, "none")

go_click ==
    /\ track' = track \o <<Marker("Go"), NoteOn(60, 64),
                           NoteOff(60, 64, TicksPerBeat * beats_per_measure)>>
    /\ current_measure' = current_measure + 1
    /\ UNCHANGED <<beats_per_measure, time_position, measure_offset>>
    /\ Record("go", <<>>, "none")

go_sustains ==
    /\ track' = track \o <<Marker("Go"), NoteOn(73, 127)>>
    /\ current_measure' = current_measure + 1
    /\ UNCHANGED <<beats_per_measure, time_position, measure_offset>>
    /\ Record("go", <<>>, "none")

go ==
    /\ track' = track \o <<Marker("Go"), NoteOn(73, 127),
                           NoteOff(73, 127, TicksPerBeat * beats_per_measure)>>
    /\ current_measure' = current_measure + 1
    /\ UNCHANGED <<beats_per_measure, time_position, measure_offset>>
    /\ Record("go", <<>>, "none")

-----------------------------------------------------------------------------
(* apply_accel_decel_smooth(start_tempo, end_tempo, length)                *)
(*                                                                         *)
(* With steps = length * beats_per_measure and d = steps - 1, the k-th     *)
(* pass of the loop holds bpm = start_tempo + k * (end_tempo - start_tempo)*)
(* / d, kept here as the fraction (start_tempo * d + k * delta) / d.  The  *)
(* code computes it in binary floating point by repeated addition: when    *)
(* delta / d is not an integer the sum carries a rounding error of a few   *)
(* units in the last place, which int() turns into a tempo one lower when  *)
(* the exact quotient is an integer.  Both outcomes are kept.              *)

RampTempos(start_tempo, end_tempo, d, k) ==
    LET delta == end_tempo - start_tempo
        num   == start_tempo * d + k * delta
        exact == Trunc(60000000 * d, num)
    IN  IF k = 0 \/ delta % d = 0 \/ (60000000 * d) % num # 0
        THEN {exact}
        ELSE {exact - 1, exact}

\* The loop from pass k on: the events it appends and how it ends.
RECURSIVE RampRuns(_, _, _, _, _)
RampRuns(start_tempo, end_tempo, d, k, steps) ==
    IF k >= steps
    THEN {[events |-> <<>>, raised |-> "none"]}
    ELSE IF start_tempo * d + k * (end_tempo - start_tempo) = 0
    THEN {[events |-> <<>>, raised |-> "ZeroDivisionError"]}
    ELSE {[events |-> <<SetTempo(t), NoteOn(60, 64),
                        NoteOff(60, 64, TicksPerBeat)>> \o r.events,
           raised |-> r.raised] :
              t \in RampTempos(start_tempo, end_tempo, d, k),
              r \in RampRuns(start_tempo, end_tempo, d, k + 1, steps)}

apply_accel_decel_smooth_unguarded(start_tempo, end_tempo, length) ==
    LET steps == length * beats_per_measure
        d     == IF steps = 1 THEN 1 ELSE steps - 1
    IN  \E r \in RampRuns(start_tempo, end_tempo, d, 0, steps) :
            /\ track' = track \o r.events
            /\ UNCHANGED <<beats_per_measure, current_measure,
                           time_position, measure_offset>>
            /\ Record("apply_accel_decel_smooth",
                      <<start_tempo, end_tempo, length>>, r.raised)

apply_accel_decel_smooth_per_measure(start_tempo, end_tempo, length) ==
    IF beats_per_measure = 0
    THEN /\ UNCHANGED <<track, beats_per_measure, current_measure,
                        time_position, measure_offset>>
         /\ Record("apply_accel_decel_smooth",
                   <<start_tempo, end_tempo, length>>, "ValueError")
    ELSE IF length * beats_per_measure - 1 = 0
    THEN /\ UNCHANGED <<track, beats_per_measure, current_measure,
                        time_position, measure_offset>>
         /\ Record("apply_accel_decel_smooth",
                   <<start_tempo, end_tempo, length>>, "ZeroDivisionError")
    ELSE \E r \in RampRuns(start_tempo, end_tempo,
                           length * beats_per_measure - 1, 0, length) :
             /\ track' = track \o r.events
             /\ UNCHANGED <<beats_per_measure, current_measure,
                            time_position, measure_offset>>
             /\ Record("apply_accel_decel_smooth",
                       <<start_tempo, end_tempo, length>>, r.raised)

apply_accel_decel_smooth(start_tempo, end_tempo, length) ==
    IF beats_per_measure = 0
    THEN /\ UNCHANGED <<track, beats_per_measure, current_measure,
                        time_position, measure_offset>>
         /\ Record("apply_accel_decel_smooth",
                   <<start_tempo, end_tempo, length>>, "ValueError")
    ELSE IF length * beats_per_measure - 1 = 0
    THEN /\ UNCHANGED <<track, beats_per_measure, current_measure,
                        time_position, measure_offset>>
         /\ Record("apply_accel_decel_smooth",
                   <<start_tempo, end_tempo, length>>, "ZeroDivisionError")
    ELSE LET steps == length * beats_per_measure
         IN  \E r \in RampRuns(start_tempo, end_tempo, steps - 1, 0, steps) :
                 /\ track' = track \o r.events
                 /\ UNCHANGED <<beats_per_measure, current_measure,
                                time_position, measure_offset>>
                 /\ Record("apply_accel_decel_smooth",
                           <<start_tempo, end_tempo, length>>, r.raised)

-----------------------------------------------------------------------------
(* Any caller: the operations in any order, with any of the inputs *)

CanCall == Len(hist) < MaxCalls

Next ==
    \/ CanCall /\ initialize
    \/ CanCall /\ go
    \/ CanCall /\ \E bpm \in BpmValues : tempo(bpm)
    \/ CanCall /\ \E r \in RampTempi, n \in MeasureCounts :
                      apply_accel_decel_smooth(r[1], r[2], n)
    \/ CanCall /\ \E ts \in TimeSignatures : timesig(ts[1], ts[2])
    \/ CanCall /\ \E n \in MeasureCounts : count_in(n)
    \/ CanCall /\ \E n \in MeasureCounts : insert_measures(n)
    \/ CanCall /\ \E n \in MeasureCounts : skip_measures(n)
    \/ CanCall /\ \E n \in MeasureCounts : unskip_measures(n)
    \/ CanCall /\ \E m \in MarkerMeasures : rehearsal_number(m)
    \/ CanCall /\ \E n \in MeasureCounts : vamp(n)

Spec == Init /\ [][Next]_vars

-----------------------------------------------------------------------------
(* The end-to-end scenario: initialize(); timesig(..); tempo(..);          *)
(* count_in(..); go() on a fresh builder, with any of the inputs           *)

NextE2E ==
    \/ Len(hist) = 0 /\ initialize
    \/ Len(hist) = 1 /\ \E ts \in ScenarioTimeSignatures : timesig(ts[1], ts[2])
    \/ Len(hist) = 2 /\ \E bpm \in BpmValues : tempo(bpm)
    \/ Len(hist) = 3 /\ \E n \in MeasureCounts : count_in(n)
    \/ Len(hist) = 4 /\ go

SpecE2E == Init /\ [][NextE2E]_vars

-----------------------------------------------------------------------------
(* Vocabulary of the properties *)

Last == hist[Len(hist)]

Called(op) == Len(hist) > 0 /\ hist[Len(hist)].op = op

Succeeded == Len(hist) > 0 /\ hist[Len(hist)].raised = "none"

\* The events the last call appended, when it only appended.
Appended == SubSeq(track, Len(pre.track) + 1, Len(track))

OnlyAppended ==
    /\ Len(track) >= Len(pre.track)
    /\ SubSeq(track, 1, Len(pre.track)) = pre.track

\* a / b rounded to the nearest integer, for a >= 0 and b > 0.
Round(a, b) == (2 * a + b) \div (2 * b)

\* events is exactly n pulse pairs: a note-on at delta-time 0, then the
\* note-off of the same pitch and velocity at delta-time `time`.
IsPulsePairs(events, n, time) ==
    /\ Len(events) = 2 * n
    /\ \A i \in 1..n :
          /\ events[2 * i - 1].type = "note_on"
          /\ events[2 * i - 1].time = 0
          /\ events[2 * i].type = "note_off"
          /\ events[2 * i].time = time
          /\ events[2 * i].note = events[2 * i - 1].note
          /\ events[2 * i].velocity = events[2 * i - 1].velocity

-----------------------------------------------------------------------------
(* C1: each measure-based operation (count_in, insert_measures, vamp, go)  *)
(* called while beats_per_measure is 0 fails with an error: it appends no  *)
(* event and does not change current_measure.                              *)
C1_MeasureOpsFailWhenUnset ==
    (/\ Len(hist) > 0
     /\ Last.op \in {"count_in", "insert_measures", "vamp", "go"}
     /\ pre.beats_per_measure = 0)
    => /\ Last.raised # "none"
       /\ track = pre.track
       /\ current_measure = pre.current_measure

(* C2: apply_accel_decel_smooth(start, end, measures) fails with an error  *)
(* whenever beats_per_measure is 0 or measures * beats_per_measure = 1,    *)
(* before any event is appended, leaving current_measure and               *)
(* beats_per_measure unchanged.                                            *)
C2_RampPreconditions ==
    (/\ Called("apply_accel_decel_smooth")
     /\ \/ pre.beats_per_measure = 0
        \/ Last.args[3] * pre.beats_per_measure = 1)
    => /\ Last.raised # "none"
       /\ track = pre.track
       /\ current_measure = pre.current_measure
       /\ beats_per_measure = pre.beats_per_measure

\* A ramp over one measure of one beat: the step size divides by zero.
C2_Witness ==
    /\ Called("apply_accel_decel_smooth")
    /\ pre.beats_per_measure = 1
    /\ Last.args[3] = 1
    /\ Last.raised = "ZeroDivisionError"
    /\ Len(track) > 0

(* C3: tempo(bpm) rejects every bpm <= 0: the call fails and no            *)
(* tempo-change event is appended.                                         *)
C3_TempoRejectsNonPositive ==
    (Called("tempo") /\ Last.args[1] <= 0)
    => /\ Last.raised # "none"
       /\ track = pre.track

(* C4: after initialize(), whatever ran before it, the time position is 0  *)
(* and current_measure is back at its start value 1.                       *)
C4_InitializeResetsCounters ==
    Called("initialize") => (time_position = 0 /\ current_measure = 1)

(* C5: after initialize(), whatever was appended before it, the track is   *)
(* exactly two events: tempo-change 500000 at delta-time 0, then           *)
(* time-signature 4/4 at delta-time 0.                                     *)
C5_InitializeTrack ==
    Called("initialize")
    => track = <<[type |-> "set_tempo", tempo |-> 500000, time |-> 0],
                 [type |-> "time_signature", numerator |-> 4,
                  denominator |-> 4, time |-> 0]>>

\* initialize() on a track that already holds events.
C5_Witness ==
    /\ Called("initialize")
    /\ Len(pre.track) >= 3
    /\ Len(track) = 2

C7_Scenario ==
    <<[op |-> "initialize", args |-> <<>>, raised |-> "none"],
      [op |-> "timesig", args |-> <<4, 4>>, raised |-> "none"],
      [op |-> "tempo", args |-> <<120>>, raised |-> "none"],
      [op |-> "count_in", args |-> <<2>>, raised |-> "none"],
      [op |-> "go", args |-> <<>>, raised |-> "none"]>>

C7_EndToEnd ==
    (/\ Len(hist) = 5
     /\ \A i \in 1..5 : /\ hist[i].op = C7_Scenario[i].op
                        /\ hist[i].args = C7_Scenario[i].args)
    => /\ hist = C7_Scenario
       /\ current_measure = 2
       /\ track =
            <<[type |-> "set_tempo", tempo |-> 500000, time |-> 0],
              [type |-> "time_signature", numerator |-> 4,
               denominator |-> 4, time |-> 0],
              [type |-> "time_signature", numerator |-> 4,
               denominator |-> 4, time |-> 0],
              [type |-> "set_tempo", tempo |-> 500000, time |-> 0],
              [type |-> "note_on", note |-> 60, velocity |-> 64, time |-> 0],
              [type |-> "note_off", note |-> 60, velocity |-> 64,
               time |-> 1920],
              [type |-> "note_on", note |-> 60, velocity |-> 64, time |-> 0],
              [type |-> "note_off", note |-> 60, velocity |-> 64,
               time |-> 1920],
              [type |-> "marker", text |-> "Go", time |-> 0],
              [type |-> "note_on", note |-> 73, velocity |-> 127, time |-> 0],
              [type |-> "note_off", note |-> 73, velocity |-> 127,
               time |-> 1920]>>

\* The scenario has run to its end.
C7_Witness ==
    /\ Len(hist) = 5
    /\ \A i \in 1..5 : /\ hist[i].op = C7_Scenario[i].op
                       /\ hist[i].args = C7_Scenario[i].args
    /\ Len(track) = 11

(* C8: insert_measures(n), n >= 0, with beats_per_measure = b increases    *)
(* current_measure by exactly n and appends exactly n pulse pairs, each    *)
(* note-off at delta-time b * ticks_per_beat, and nothing else.            *)
C8_InsertMeasures ==
    Called("insert_measures")
    => /\ Succeeded
       /\ current_measure = pre.current_measure + Last.args[1]
       /\ OnlyAppended
       /\ IsPulsePairs(Appended, Last.args[1],
                       pre.beats_per_measure * TicksPerBeat)
       /\ beats_per_measure = pre.beats_per_measure

\* timesig(3, 4) then insert_measures(2): two pairs of 1440 ticks.
C8_Witness ==
    /\ Called("insert_measures")
    /\ Last.args[1] = 2
    /\ pre.beats_per_measure = 3
    /\ Len(track) = Len(pre.track) + 4
    /\ track[Len(track)].time = 1440
    /\ current_measure = pre.current_measure + 2

(* C9: vamp(n) with current_measure = m before the call appends one marker *)
(* with text "Vamp m.<m>" first, then exactly n pitch-60 pulse pairs each  *)
(* spanning beats_per_measure * ticks_per_beat ticks, and leaves           *)
(* current_measure = m + n.                                                *)
C9_Vamp ==
    Called("vamp")
    => /\ Succeeded
       /\ OnlyAppended
       /\ Len(Appended) = 1 + 2 * Last.args[1]
       /\ Appended[1] = [type |-> "marker", time |-> 0,
                         text |-> "Vamp m." \o ToString(pre.current_measure)]
       /\ IsPulsePairs(SubSeq(Appended, 2, Len(Appended)), Last.args[1],
                       pre.beats_per_measure * TicksPerBeat)
       /\ \A i \in 2..Len(Appended) : Appended[i].note = 60
       /\ current_measure = pre.current_measure + Last.args[1]

\* vamp(2) at measure 3 in 4/4: "Vamp m.3", two pairs of 1920 ticks.
C9_Witness ==
    /\ Called("vamp")
    /\ Last.args[1] = 2
    /\ pre.current_measure = 3
    /\ pre.beats_per_measure = 4
    /\ track[Len(track) - 4].text = "Vamp m.3"
    /\ track[Len(track)].time = 1920
    /\ current_measure = 5

(* C10: skip_measures(n) followed by unskip_measures(n) leaves             *)
(* current_measure at its value before the pair; neither call appends an   *)
(* event or changes beats_per_measure.                                     *)
C10_SkipUnskip ==
    (/\ Len(hist) >= 2
     /\ hist[Len(hist) - 1].op = "skip_measures"
     /\ Last.op = "unskip_measures"
     /\ Last.args = hist[Len(hist) - 1].args)
    => /\ hist[Len(hist) - 1].raised = "none"
       /\ Last.raised = "none"
       /\ current_measure = pre2.current_measure
       /\ pre.track = pre2.track
       /\ track = pre2.track
       /\ pre.beats_per_measure = pre2.beats_per_measure
       /\ beats_per_measure = pre2.beats_per_measure

\* skip_measures(2); unskip_measures(2) from measure 3 of a track with
\* events: the counter went to 5 and came back.
C10_Witness ==
    /\ Len(hist) >= 3
    /\ hist[Len(hist) - 1].op = "skip_measures"
    /\ Last.op = "unskip_measures"
    /\ Last.args = <<2>>
    /\ hist[Len(hist) - 1].args = <<2>>
    /\ pre2.current_measure = 3
    /\ pre.current_measure = 5
    /\ current_measure = 3
    /\ Len(track) > 0

(* C11: rehearsal_number(measure) appends exactly one marker whose text is *)
(* "m.<measure>" for every measure that is given (0 included), uses        *)
(* current_measure only when no measure is given, and never changes        *)
(* current_measure or beats_per_measure.                                   *)
C11_RehearsalMarker ==
    Called("rehearsal_number")
    => /\ Succeeded
       /\ OnlyAppended
       /\ Len(Appended) = 1
       /\ Appended[1].type = "marker"
       /\ Appended[1].text =
            "m." \o ToString(IF Last.args = <<>> THEN pre.current_measure
                             ELSE Last.args[1])
       /\ current_measure = pre.current_measure
       /\ beats_per_measure = pre.beats_per_measure

(* C12: every operation other than initialize() only appends: the track    *)
(* before the call is an unchanged prefix of the track after it.           *)
C12_AppendOnly ==
    (Len(hist) > 0 /\ Last.op # "initialize") => OnlyAppended

\* A call that appended events behind events that were already there.
C12_Witness ==
    /\ Len(hist) > 0
    /\ Last.op # "initialize"
    /\ Len(pre.track) >= 3
    /\ Len(track) > Len(pre.track)
    /\ track[1] = pre.track[1]

(* C13: count_in(n) appends exactly n pitch-60 pulse pairs, each note-off  *)
(* at delta-time beats_per_measure * ticks_per_beat, and leaves            *)
(* current_measure unchanged; the appended events are those                *)
(* insert_measures(n) appends from the same state.                         *)
C13_CountIn ==
    Called("count_in")
    => /\ Succeeded
       /\ OnlyAppended
       /\ IsPulsePairs(Appended, Last.args[1],
                       pre.beats_per_measure * TicksPerBeat)
       /\ \A i \in 1..Len(Appended) : Appended[i].note = 60
       /\ current_measure = pre.current_measure
       /\ beats_per_measure = pre.beats_per_measure
       /\ Appended = insert_measures_events(Last.args[1])

\* count_in(2) in 3/4 at a measure other than the first.
C13_Witness ==
    /\ Called("count_in")
    /\ Last.args[1] = 2
    /\ pre.beats_per_measure = 3
    /\ pre.current_measure = 2
    /\ current_measure = 2
    /\ Len(track) = Len(pre.track) + 4
    /\ track[Len(track)].time = 1440

(* C14: go() appends, in order, a marker "Go", a note-on pitch 73 velocity *)
(* 127 at delta-time 0 and a note-off pitch 73 at delta-time               *)
(* beats_per_measure * ticks_per_beat, and increases current_measure by 1. *)
C14_Go ==
    Called("go")
    => /\ Succeeded
       /\ OnlyAppended
       /\ Len(Appended) = 3
       /\ Appended[1].type = "marker"
       /\ Appended[1].text = "Go"
       /\ Appended[2] = [type |-> "note_on", note |-> 73, velocity |-> 127,
                         time |-> 0]
       /\ Appended[3].type = "note_off"
       /\ Appended[3].note = 73
       /\ Appended[3].time = pre.beats_per_measure * TicksPerBeat
       /\ current_measure = pre.current_measure + 1

\* go() in 3/4: the cue pulse lasts 1440 ticks.
C14_Witness ==
    /\ Called("go")
    /\ pre.beats_per_measure = 3
    /\ track[Len(track)].time = 1440
    /\ track[Len(track)].note = 73
    /\ current_measure = pre.current_measure + 1

(* C15: a successful apply_accel_decel_smooth(start, end, measures)        *)
(* appends exactly measures * beats_per_measure steps, each a tempo-change *)
(* followed by a note-on and a note-off at delta-time ticks_per_beat, and  *)
(* leaves current_measure unchanged.                                       *)
C15_RampSteps ==
    (Called("apply_accel_decel_smooth") /\ Succeeded)
    => /\ OnlyAppended
       /\ Len(Appended) = 3 * Last.args[3] * pre.beats_per_measure
       /\ \A k \in 1..(Last.args[3] * pre.beats_per_measure) :
             /\ Appended[3 * k - 2].type = "set_tempo"
             /\ Appended[3 * k - 1].type = "note_on"
             /\ Appended[3 * k].type = "note_off"
             /\ Appended[3 * k].time = TicksPerBeat
       /\ current_measure = pre.current_measure

\* A ramp over two measures of 3/4: six steps, from 60 BPM to 120 BPM.
C15_Witness ==
    /\ Called("apply_accel_decel_smooth")
    /\ Succeeded
    /\ Last.args = <<60, 120, 2>>
    /\ pre.beats_per_measure = 3
    /\ Len(track) = Len(pre.track) + 18
    /\ track[Len(pre.track) + 1].tempo = 1000000
    /\ track[Len(track) - 2].tempo = 500000

(* C16: in every reachable state every note-on of the track is immediately *)
(* followed by a note-off of the same pitch and velocity.                  *)
C16_NotesPaired ==
    \A i \in 1..Len(track) :
        track[i].type = "note_on"
        => /\ i < Len(track)
           /\ track[i + 1].type = "note_off"
           /\ track[i + 1].note = track[i].note
           /\ track[i + 1].velocity = track[i].velocity

\* A track holding a ramp click, a measure click and the Go cue.
C16_Witness ==
    /\ Len(hist) = 3
    /\ hist[2].op = "apply_accel_decel_smooth"
    /\ hist[2].raised = "none"
    /\ hist[3].op = "go"
    /\ Len(track) >= 10
    /\ track[Len(track) - 1].type = "note_on"
    /\ track[Len(track) - 1].note = 73

(* C17: current_measure is at least 1 in every reachable state, under any  *)
(* sequence of insert_measures, vamp, go, skip_measures and                *)
(* unskip_measures with non-negative arguments.                            *)
C17_MeasureAtLeastOne == current_measure >= 1

\* Measures advanced (insert_measures, vamp, skip_measures, go) and taken
\* back (unskip_measures) by the first n calls.
RECURSIVE Advanced(_)
Advanced(n) ==
    IF n = 0 THEN 0
    ELSE Advanced(n - 1)
         + (IF hist[n].op \in {"insert_measures", "vamp", "skip_measures"}
            THEN hist[n].args[1]
            ELSE IF hist[n].op = "go" THEN 1 ELSE 0)

RECURSIVE Unskipped(_)
Unskipped(n) ==
    IF n = 0 THEN 0
    ELSE Unskipped(n - 1)
         + (IF hist[n].op = "unskip_measures" THEN hist[n].args[1] ELSE 0)

(* C17, amended: current_measure is 1 plus the measures advanced minus the *)
(* measures taken back by unskip_measures, so it is at least 1 in every    *)
(* state in which no more measures were taken back than were advanced.     *)
C17_MeasureBalance ==
    /\ current_measure = 1 + Advanced(Len(hist)) - Unskipped(Len(hist))
    /\ Unskipped(Len(hist)) <= Advanced(Len(hist)) => current_measure >= 1

\* unskip_measures(2) at measure 3 of 2 advanced: back at measure 1.
C17_Witness ==
    /\ Called("unskip_measures")
    /\ Last.args[1] = 2
    /\ pre.current_measure = 3
    /\ current_measure = 1
    /\ Advanced(Len(hist)) = 2

=============================================================================
